---- MODULE Spec2Model ----
(***************************************************************************)
(* A model of the rendering core of the ov pager:                          *)
(*   - oviewer/content.go: parseString (the escape/Unicode aware line      *)
(*     parser), csToStyle / parseCSI / csColor / colorName (SGR            *)
(*     resolution) and ContentsToStr;                                      *)
(*   - the Model type: the line buffer guarded by mu, and lineToContents   *)
(*     with its content cache.                                             *)
(* Strings are sequences of code points.  Indexes are 1-based here and     *)
(* 0-based in the Go source; every definition says which it uses.          *)
(***************************************************************************)
EXTENDS Integers, Sequences, FiniteSets, TLC

(***************************************************************************)
(* Bounds of the model.                                                    *)
(***************************************************************************)
\* Longest text line (in code points) drawn for the parser.
MaxLen == 3
\* Most SGR tokens in one drawn "ESC [ tokens m" line.
MaxTokens == 5
\* Number of lines the producer appends before EOF.
MaxLines == 2
\* Most fragments in one line drawn for a sequence of parses, and the
\* number of parses in such a sequence.
MaxFrags == 3
MaxParses == 2

\* Fragments in a line of escape sequences, backspaces and tabs.
MaxSeq == 4

(***************************************************************************)
(* Code points the source names.                                           *)
(***************************************************************************)
ESC == 27
LF == 10
TAB == 9
BS == 8

\* The states of the ANSI escape code parser (iota constants).
ansiText == 0
ansiEscape == 1
ansiSubstring == 2
ansiControlSequence == 3

(***************************************************************************)
(* Sequence helpers.                                                       *)
(***************************************************************************)
Tail0(s, k) == SubSeq(s, k + 1, Len(s))

RECURSIVE Repeat(_, _)
Repeat(x, n) == IF n <= 0 THEN <<>> ELSE <<x>> \o Repeat(x, n - 1)

RECURSIVE Concat(_)
Concat(ss) == IF ss = <<>> THEN <<>> ELSE Head(ss) \o Concat(Tail(ss))

SeqsUpTo(S, n) == UNION {[1..k -> S] : k \in 0..n}

(***************************************************************************)
(* Libraries the parser calls.  Their code is not part of the repository;  *)
(* they are modelled by their documented behaviour on the code points the  *)
(* model draws.                                                            *)
(***************************************************************************)
\* Unicode general category Cc: a grapheme cluster never continues after one.
IsControl(r) == r < 32 \/ (r >= 127 /\ r < 160)

\* Grapheme_Cluster_Break = Extend (combining diacritics) or ZWJ.
IsExtend(r) == (r >= 768 /\ r <= 879) \/ r = 8205

\* runewidth.RuneWidth: 0 for control and combining code points, 2 for East
\* Asian wide ones, 1 otherwise.
RuneWidth(r) ==
  IF r < 0 THEN 0
  ELSE IF IsControl(r) \/ IsExtend(r) \/ (r >= 8203 /\ r <= 8207) THEN 0
  ELSE IF (r >= 4352 /\ r <= 4447) \/ (r >= 11904 /\ r <= 42191)
          \/ (r >= 44032 /\ r <= 55203) \/ (r >= 63744 /\ r <= 64255)
          \/ (r >= 65280 /\ r <= 65376) THEN 2
  ELSE 1

\* len(string(r)): the UTF-8 length of a code point.
Utf8Len(r) ==
  IF r < 128 THEN 1 ELSE IF r < 2048 THEN 2 ELSE IF r < 65536 THEN 3 ELSE 4

\* len(string(r)) summed over the code points of s.
RECURSIVE Utf8SeqLen(_)
Utf8SeqLen(s) == IF s = <<>> THEN 0 ELSE Utf8Len(Head(s)) + Utf8SeqLen(Tail(s))

\* uniseg: the length of the first grapheme cluster of s (s non-empty): the
\* first code point and, unless it is a control, the Extend code points after it.
RECURSIVE ExtendRun(_)
ExtendRun(s) ==
  IF s = <<>> \/ ~IsExtend(Head(s)) THEN 0 ELSE 1 + ExtendRun(Tail(s))

ClusterLen(s) == IF IsControl(Head(s)) THEN 1 ELSE 1 + ExtendRun(Tail(s))

(***************************************************************************)
(* Styles.  tcell.Style and ovStyle are records of the same nine           *)
(* attributes; a colour is a record so that names and RGB values compare.  *)
(***************************************************************************)
Named(s) == [k |-> s, r |-> 0, g |-> 0, b |-> 0]

Hex(r, g, b) == [k |-> "#", r |-> r, g |-> g, b |-> b]

NoColor == Named("")

ovStyleZero ==
  [Bold |-> FALSE, Dim |-> FALSE, Italic |-> FALSE, Underline |-> FALSE,
   Blink |-> FALSE, Reverse |-> FALSE, StrikeThrough |-> FALSE,
   Foreground |-> NoColor, Background |-> NoColor]

StyleDefault == ovStyleZero

\* tcell.GetColor: a name or #rrggbb; anything else, "default" included, is
\* the terminal's default colour.
GetColor(c) == IF c = Named("default") THEN NoColor ELSE c

\* applyStyle lays the attributes an ovStyle sets over a tcell.Style.
applyStyle(style, s) ==
  [Bold |-> style.Bold \/ s.Bold,
   Dim |-> style.Dim \/ s.Dim,
   Italic |-> style.Italic \/ s.Italic,
   Underline |-> style.Underline \/ s.Underline,
   Blink |-> style.Blink \/ s.Blink,
   Reverse |-> style.Reverse \/ s.Reverse,
   StrikeThrough |-> style.StrikeThrough \/ s.StrikeThrough,
   Foreground |-> IF s.Foreground # NoColor THEN GetColor(s.Foreground)
                  ELSE style.Foreground,
   Background |-> IF s.Background # NoColor THEN GetColor(s.Background)
                  ELSE style.Background]

\* The configured styles of overstruck text.
OverStrikeStyle == [StyleDefault EXCEPT !.Bold = TRUE]

OverLineStyle == [StyleDefault EXCEPT !.Underline = TRUE]

(***************************************************************************)
(* Colour mapper.                                                          *)
(***************************************************************************)
ColorTable ==
  <<"black", "maroon", "green", "olive", "navy", "purple", "teal", "silver",
    "gray", "red", "lime", "yellow", "blue", "fuchsia", "aqua", "white">>

\* lookupColor (colorNumber is 0-based).
lookupColor(colorNumber) ==
  IF colorNumber < 0 \/ colorNumber > 15 THEN Named("black")
  ELSE Named(ColorTable[colorNumber + 1])

colorName(colorNumber) ==
  IF colorNumber <= 7 THEN lookupColor(colorNumber)
  ELSE IF colorNumber <= 15 THEN lookupColor(colorNumber)
  ELSE IF colorNumber <= 231 THEN
    LET red == (colorNumber - 16) \div 36
        green == ((colorNumber - 16) \div 6) % 6
        blue == (colorNumber - 16) % 6
    IN Hex((255 * red) \div 5, (255 * green) \div 5, (255 * blue) \div 5)
  ELSE IF colorNumber <= 255 THEN
    LET grey == (255 * (colorNumber - 232)) \div 23 IN Hex(grey, grey, grey)
  ELSE NoColor

(***************************************************************************)
(* SGR parameter strings.                                                  *)
(***************************************************************************)
\* The decimal digits of a token, as a string: D1(3) is "3", D2(3,8) is "38".
D1(a) == <<48 + a>>

D2(a, b) == <<48 + a, 48 + b>>

D3(a, b, c) == <<48 + a, 48 + b, 48 + c>>

IsDigit(r) == r >= 48 /\ r <= 57

RECURSIVE DecValue(_, _)
DecValue(s, acc) ==
  IF s = <<>> THEN acc ELSE DecValue(Tail(s), 10 * acc + (Head(s) - 48))

\* strconv.Atoi with its error dropped: 0 for the empty string and for a
\* string with a byte that is no digit (the parameter bytes hold no sign).
Atoi(s) ==
  IF s = <<>> \/ \E i \in 1..Len(s) : ~IsDigit(s[i]) THEN 0 ELSE DecValue(s, 0)

\* strings.Split(params, ";").
RECURSIVE Split(_)
Split(s) ==
  IF \A i \in 1..Len(s) : s[i] # 59 THEN <<s>>
  ELSE LET i == CHOOSE j \in 1..Len(s) :
                  s[j] = 59 /\ \A k \in 1..(j - 1) : s[k] # 59
       IN <<SubSeq(s, 1, i - 1)>> \o Split(SubSeq(s, i + 1, Len(s)))

\* fields[i] for a 0-based i, and whether that index is outside the slice
\* (Go panics there).
At0(fields, i) == IF i >= 0 /\ i < Len(fields) THEN fields[i + 1] ELSE <<>>

Oob(fields, i) == i < 0 \/ i >= Len(fields)

(***************************************************************************)
(* csColor, parseCSI, csToStyle.  A result carries a panic flag: TRUE when *)
(* the Go code would index a slice outside its bounds.                     *)
(***************************************************************************)
\* The guards of csColor's two colour forms (fields is fields[index:] of the
\* caller; index is 1 when they are evaluated).
\* Mutant: the 8-bit form is taken without looking at the length.
Is8BitNoLen(fields) == At0(fields, 1) = D1(5)

Is8Bit(fields) == At0(fields, 1) = D1(5) /\ Len(fields) > 1 + 1

Is24Bit(fields) == At0(fields, 1) = D1(2) /\ Len(fields) > 1 + 3

\* csColor parses 8-bit and 24-bit colours; index is the number of fields
\* consumed after the first.
csColor(style, fields) ==
  IF Len(fields) < 2 THEN [index |-> 1, style |-> style, panic |-> FALSE]
  ELSE
    LET fg == At0(fields, 0)
        r8 == Is8Bit(fields)
        r24 == ~r8 /\ Is24Bit(fields)
        color == IF r8 THEN colorName(Atoi(At0(fields, 2)))
                 ELSE IF r24 THEN Hex(Atoi(At0(fields, 2)), Atoi(At0(fields, 3)),
                                      Atoi(At0(fields, 4)))
                 ELSE NoColor
        index == IF r8 THEN 2 ELSE IF r24 THEN 4 ELSE 1
        panic == \/ Oob(fields, 1)
                 \/ r8 /\ Oob(fields, 2)
                 \/ r24 /\ (Oob(fields, 2) \/ Oob(fields, 3) \/ Oob(fields, 4))
        styled == IF color # NoColor
                  THEN IF fg = D2(3, 8) THEN [style EXCEPT !.Foreground = color]
                       ELSE [style EXCEPT !.Background = color]
                  ELSE style
    IN [index |-> index, style |-> styled, panic |-> panic]

\* What the tokens 22, 24, 25 and 27 leave of the style parsed so far.
ClearAttrs(style) == ovStyleZero

\* One arm of parseCSI's switch, for every token but 38 and 48.
FieldStyle(field, style) ==
  IF field \in {D1(1), D2(0, 1)} THEN [style EXCEPT !.Bold = TRUE]
  ELSE IF field \in {D1(2), D2(0, 2)} THEN [style EXCEPT !.Dim = TRUE]
  ELSE IF field \in {D1(3), D2(0, 3)} THEN [style EXCEPT !.Italic = TRUE]
  ELSE IF field \in {D1(4), D2(0, 4)} THEN [style EXCEPT !.Underline = TRUE]
  ELSE IF field \in {D1(5), D2(0, 5)} THEN [style EXCEPT !.Blink = TRUE]
  ELSE IF field \in {D1(6), D2(0, 6)} THEN [style EXCEPT !.Blink = TRUE]
  ELSE IF field \in {D1(7), D2(0, 7)} THEN [style EXCEPT !.Reverse = TRUE]
  ELSE IF field \in {D1(8), D2(0, 8)} THEN [style EXCEPT !.Reverse = TRUE]
  ELSE IF field \in {D1(9), D2(0, 9)} THEN [style EXCEPT !.StrikeThrough = TRUE]
  ELSE IF field \in {D2(2, 2), D2(2, 4), D2(2, 5), D2(2, 7)} THEN ClearAttrs(style)
  ELSE IF field \in {D2(3, d) : d \in 0..7}
    THEN [style EXCEPT !.Foreground = colorName(Atoi(field) - 30)]
  ELSE IF field = D2(3, 9) THEN [style EXCEPT !.Foreground = Named("default")]
  ELSE IF field \in {D2(4, d) : d \in 0..7}
    THEN [style EXCEPT !.Background = colorName(Atoi(field) - 40)]
  ELSE IF field = D2(4, 9) THEN [style EXCEPT !.Background = Named("default")]
  ELSE IF field \in {D2(9, d) : d \in 0..7}
    THEN [style EXCEPT !.Foreground = colorName(Atoi(field) - 82)]
  ELSE IF field \in {D3(1, 0, d) : d \in 0..7}
    THEN [style EXCEPT !.Background = colorName(Atoi(field) - 92)]
  ELSE style

\* The loop of parseCSI from a 0-based index on.
RECURSIVE parseCSILoop(_, _, _, _)
parseCSILoop(fields, index, style, panic) ==
  IF index >= Len(fields) THEN [style |-> style, panic |-> panic]
  ELSE
    LET field == At0(fields, index) IN
    IF field \in {D2(3, 8), D2(4, 8)} THEN
      LET c == csColor(style, Tail0(fields, index))
      IN parseCSILoop(fields, index + c.index + 1, c.style, panic \/ c.panic)
    ELSE parseCSILoop(fields, index + 1, FieldStyle(field, style), panic)

\* parseCSI actually parses the style and returns ovStyle.
parseCSI(params) == parseCSILoop(Split(params), 0, ovStyleZero, FALSE)

\* Mutant: only "0" resets.
IsResetZero(params) == params = D1(0)

\* The parameter strings that reset the style without consulting csiCache.
IsReset(params) == params = D1(0) \/ params = <<>> \/ params = <<59>>

\* Mutant: a hit returns the cached attributes without the style before.
CacheHitStyleOnly(style, s) == s

\* What csToStyle returns on a csiCache hit.
CacheHitStyle(style, s) == applyStyle(style, s)

\* csToStyle returns tcell.Style from the control sequence; cache is csiCache
\* (a function from parameter strings to ovStyle) before the call.
csToStyle(style, params, cache) ==
  IF IsReset(params)
  THEN [style |-> StyleDefault, cache |-> cache, panic |-> FALSE]
  ELSE IF params \in DOMAIN cache
  THEN [style |-> CacheHitStyle(style, cache[params]), cache |-> cache,
        panic |-> FALSE]
  ELSE LET s == parseCSI(params)
       IN [style |-> applyStyle(style, s.style),
           cache |-> (params :> s.style) @@ cache,
           panic |-> s.panic]

(***************************************************************************)
(* parseString: the line parser.  Its locals are a record; ParseStep is    *)
(* one iteration of "for gr.Next()" on one grapheme cluster, and a cell    *)
(* (content) is the record [width, mainc, combc, style].                   *)
(***************************************************************************)
DefaultContent ==
  [width |-> 0, mainc |-> 0, combc |-> <<>>, style |-> StyleDefault]

\* The locals of parseString before the first cluster.
ParseInit ==
  [lc |-> <<>>, state |-> ansiText, csiParameter |-> <<>>,
   style |-> StyleDefault, tabX |-> 0, b |-> 0, bsFlag |-> FALSE,
   bsContent |-> DefaultContent, panic |-> FALSE]

\* Mutant: the underscore is looked at before the equal code points.
overstrikeLineFirst(p, m, style) ==
  IF p = 95 THEN OverLineStyle
  ELSE IF p = m THEN OverStrikeStyle
  ELSE style

\* overstrike returns an overstrike tcell.Style.
overstrike(p, m, style) ==
  IF p = m THEN OverStrikeStyle
  ELSE IF p = 95 THEN OverLineStyle
  ELSE style

\* lastContent returns the last character of Contents.
lastContent(lc) ==
  LET n == Len(lc) IN
  IF n = 0 THEN DefaultContent
  ELSE IF n > 1 /\ lc[n - 1].width > 1 THEN lc[n - 1]
  ELSE lc[n]

\* "if tabWidth > 0": the tab is expanded to the next tab stop.
TabExpands(tabWidth) == tabWidth > 0

\* TAB in text state.
StepTab(p, tabWidth) ==
  IF TabExpands(tabWidth) THEN
    IF tabWidth = 0 THEN [p EXCEPT !.panic = TRUE]   \* integer divide by zero
    ELSE
      LET tabStop == tabWidth - (p.tabX % tabWidth)
          c == [width |-> 1, mainc |-> TAB, combc |-> <<>>, style |-> p.style]
          fill == [c EXCEPT !.mainc = 0]
      IN [p EXCEPT !.lc = p.lc \o <<c>> \o Repeat(fill, tabStop - 1),
                   !.tabX = p.tabX + 1 + (IF tabStop > 1 THEN tabStop - 1 ELSE 0)]
  ELSE IF tabWidth < 0 THEN
    LET c == [width |-> 1, mainc |-> 92, combc |-> <<>>,
              style |-> [p.style EXCEPT !.Reverse = TRUE]]
    IN [p EXCEPT !.lc = p.lc \o <<c, [c EXCEPT !.mainc = 116]>>,
                 !.tabX = p.tabX + 2]
  ELSE p

\* "if len(lc) == 0 { continue }": a backspace with no cell before it.
BackspaceNoop(lc) == Len(lc) = 0

\* Mutant: the backspace cuts one cell off whatever it removes.
BackspaceCutOne(bsContent) == 1

\* The number of cells a backspace cuts off: two for a wide character.
BackspaceCut(bsContent) == IF bsContent.width > 1 THEN 2 ELSE 1

\* Backspace in text state.
StepBackspace(p) ==
  IF BackspaceNoop(p.lc) THEN p
  ELSE
    LET bsContent == lastContent(p.lc)
        cut == BackspaceCut(bsContent)
    IN IF Len(p.lc) - cut < 0 THEN [p EXCEPT !.panic = TRUE]   \* lc[:len(lc)-cut]
       ELSE [p EXCEPT !.bsFlag = TRUE,
                      !.bsContent = bsContent,
                      !.b = p.b - (1 + Utf8Len(bsContent.mainc)),
                      !.lc = SubSeq(p.lc, 1, Len(p.lc) - cut)]

\* Any other code point of width 0: a combining mark.  n is 0-based.
StepCombining(p, runeValue) ==
  LET lastC == lastContent(p.lc)
      marked == [lastC EXCEPT !.combc = Append(lastC.combc, runeValue)]
      n == Len(p.lc) - lastC.width
  IN IF n >= 0 /\ Len(p.lc) > 0
     THEN IF n >= Len(p.lc) THEN [p EXCEPT !.panic = TRUE]   \* lc[n] = lastC
          ELSE [p EXCEPT !.lc = [p.lc EXCEPT ![n + 1] = marked]]
     ELSE p

\* Mutant: the pending overstrike stays after it was applied.
KeepPending(p) == p

\* "bsFlag = false; bsContent = DefaultContent".
ClearPending(p) == [p EXCEPT !.bsFlag = FALSE, !.bsContent = DefaultContent]

\* A code point of width 1 or 2: one cell, and a placeholder after a wide one.
StepCell(p, runes, width) ==
  LET runeValue == Head(runes)
      c == [width |-> width, mainc |-> runeValue, combc |-> Tail(runes),
            style |-> IF p.bsFlag
                      THEN overstrike(p.bsContent.mainc, runeValue, p.style)
                      ELSE p.style]
      q == IF p.bsFlag THEN ClearPending(p) ELSE p
  IN IF width = 1
     THEN [q EXCEPT !.lc = Append(p.lc, c), !.tabX = p.tabX + 1]
     ELSE [q EXCEPT !.lc = p.lc \o <<c, DefaultContent>>, !.tabX = p.tabX + 2]

\* The part of the loop body after the switch on state: cell emission.
StepText(p, runes, tabWidth) ==
  LET runeValue == Head(runes) IN
  IF runeValue = ESC THEN [p EXCEPT !.state = ansiEscape]
  ELSE IF runeValue = LF THEN p
  ELSE IF RuneWidth(runeValue) = 0 THEN
    IF runeValue = TAB THEN StepTab(p, tabWidth)
    ELSE IF runeValue = BS THEN StepBackspace(p)
    ELSE StepCombining(p, runeValue)
  ELSE IF RuneWidth(runeValue) = 1 THEN StepCell(p, runes, 1)
  ELSE IF RuneWidth(runeValue) = 2 THEN StepCell(p, runes, 2)
  ELSE p

\* case ansiEscape.  The default arm has no continue: the code point that
\* ended the escape goes on to cell emission.
StepEscape(p, runes, tabWidth) ==
  LET runeValue == Head(runes) IN
  IF runeValue = 91
  THEN [p EXCEPT !.csiParameter = <<>>, !.state = ansiControlSequence]
  ELSE IF runeValue = 99
  THEN [p EXCEPT !.style = StyleDefault, !.state = ansiText]
  ELSE IF runeValue \in {80, 93, 88, 94, 95}
  THEN [p EXCEPT !.state = ansiSubstring]
  ELSE StepText([p EXCEPT !.state = ansiText], runes, tabWidth)

\* case ansiSubstring.
StepSubstring(p, runeValue) ==
  IF runeValue = ESC THEN [p EXCEPT !.state = ansiControlSequence] ELSE p

\* Mutant: only the digits are parameter bytes.
IsParameterDigit(r) == r >= 48 /\ r <= 57

\* "runeValue >= 0x30 && runeValue <= 0x3f".
IsParameterByte(r) == r >= 48 /\ r <= 63

\* case ansiControlSequence; the result is the locals and csiCache.
StepControlSequence(p, runeValue, cache) ==
  IF runeValue = 109 THEN
    LET r == csToStyle(p.style, p.csiParameter, cache)
    IN [p |-> [p EXCEPT !.style = r.style, !.state = ansiText,
                        !.panic = r.panic],
        cache |-> r.cache]
  ELSE IF runeValue >= 65 /\ runeValue <= 84
  THEN [p |-> [p EXCEPT !.state = ansiText], cache |-> cache]
  ELSE IF IsParameterByte(runeValue)
  THEN [p |-> [p EXCEPT !.csiParameter = Append(p.csiParameter, runeValue)],
        cache |-> cache]
  ELSE [p |-> [p EXCEPT !.state = ansiText], cache |-> cache]

\* One iteration of the loop of parseString on the cluster runes; a parse
\* that panicked has stopped.
ParseStep(p, runes, tabWidth, cache) ==
  IF p.panic THEN [p |-> p, cache |-> cache]
  ELSE IF p.state = ansiEscape
  THEN [p |-> StepEscape(p, runes, tabWidth), cache |-> cache]
  ELSE IF p.state = ansiSubstring
  THEN [p |-> StepSubstring(p, Head(runes)), cache |-> cache]
  ELSE IF p.state = ansiControlSequence
  THEN StepControlSequence(p, Head(runes), cache)
  ELSE [p |-> StepText(p, runes, tabWidth), cache |-> cache]

\* The loop of parseString over what is left of the string.
RECURSIVE ParseLoop(_, _, _, _)
ParseLoop(p, rest, tabWidth, cache) ==
  IF rest = <<>> THEN [p |-> p, cache |-> cache]
  ELSE LET k == ClusterLen(rest)
           r == ParseStep(p, SubSeq(rest, 1, k), tabWidth, cache)
       IN ParseLoop(r.p, Tail0(rest, k), tabWidth, r.cache)

\* parseString converts a string to lineContents (and leaves csiCache).
parseString(str, tabWidth, cache) == ParseLoop(ParseInit, str, tabWidth, cache)

\* Mutant: the bytes of the combining code points are not counted.
CombBytesNone(combc) == 0

\* The bytes ContentsToStr adds to bn for the combining code points of a cell.
CombBytes(combc) == Utf8SeqLen(combc)

\* ContentsToStr: the string and the byte position -> cell index table
\* (a set of <<byte offset, 0-based cell index>>, one per key).
RECURSIVE ContentsLoop(_, _, _, _, _)
ContentsLoop(lc, n, bn, buff, posCV) ==
  IF n >= Len(lc) THEN [str |-> buff, bn |-> bn, posCV |-> posCV]
  ELSE LET c == lc[n + 1] IN
       IF c.mainc = 0 THEN ContentsLoop(lc, n + 1, bn, buff, posCV)
       ELSE ContentsLoop(lc, n + 1, bn + Utf8Len(c.mainc) + CombBytes(c.combc),
                         buff \o <<c.mainc>> \o c.combc,
                         {e \in posCV : e[1] # bn} \cup {<<bn, n>>})

ContentsToStr(lc) ==
  LET r == ContentsLoop(lc, 0, 0, <<>>, {})
  IN [str |-> r.str,
      posCV |-> {e \in r.posCV : e[1] # r.bn} \cup {<<r.bn, Len(lc)>>}]

(***************************************************************************)
(* The inputs drawn for the parser.                                        *)
(***************************************************************************)
\* a, _, TAB, BS, ESC, LF, a wide character (U+3042), a combining mark
\* (U+0301), and the escape bytes [, m, 1, P.
TextAlphabet == {97, 95, TAB, BS, ESC, LF, 12354, 769, 91, 109, 49, 80}

TextInputs == SeqsUpTo(TextAlphabet, MaxLen)

TabWidths == {-1, 0, 2, 3}

\* SGR tokens: "", "1", "2", "5", "38".
SgrTokens == {<<>>, D1(1), D1(2), D1(5), D2(3, 8)}

RECURSIVE Join(_)
Join(tokens) ==
  IF tokens = <<>> THEN <<>>
  ELSE IF Len(tokens) = 1 THEN tokens[1]
  ELSE tokens[1] \o <<59>> \o Join(Tail(tokens))

\* "ESC [ tokens m": complete, truncated and malformed colour sequences.
SgrInputs == {<<ESC, 91>> \o Join(ts) \o <<109>> : ts \in SeqsUpTo(SgrTokens, MaxTokens)}

\* Lines of up to MaxSeq of "ESC[1m", "ESC[22m", "ESC P", ESC, "m", "a",
\* backspace and tab.
SeqFrags ==
  {<<ESC, 91, 49, 109>>, <<ESC, 91, 50, 50, 109>>, <<ESC, 80>>, <<ESC>>,
   <<109>>, <<97>>, <<BS>>, <<TAB>>}

SeqInputs == {Concat(fs) : fs \in SeqsUpTo(SeqFrags, MaxSeq)}

ParseInputs ==
  (TextInputs \X TabWidths) \cup (SgrInputs \X {2}) \cup (SeqInputs \X {3})

\* Lines for a sequence of parses sharing csiCache: up to MaxFrags of
\* "ESC[1m", "ESC[4m", "ESC[m", "ESC[0m", "ESC[;m" and "a".
LineFrags ==
  {<<ESC, 91, 49, 109>>, <<ESC, 91, 52, 109>>, <<ESC, 91, 109>>,
   <<ESC, 91, 48, 109>>, <<ESC, 91, 59, 109>>, <<97>>}

LineInputs == {Concat(fs) : fs \in SeqsUpTo(LineFrags, MaxFrags)}

(***************************************************************************)
(* State.                                                                  *)
(***************************************************************************)
VARIABLES
  str,        \* parseString: the line being parsed
  tabWidth,   \* parseString: its tabWidth argument
  rest,       \* the part of str the grapheme iterator has not reached
  runes,      \* gr.Runes() of the iteration that ran last
  p,          \* the locals of parseString
  ppc,        \* "loop" while parseString iterates, "returned" after it
  csiCache,   \* the process-wide csiCache
  cache0,     \* history: csiCache when the running parseString was called
  nparsed,    \* history: the number of parseString calls that returned before
  buffer,     \* Model.buffer: the raw lines read so far
  endNum,     \* Model.endNum
  eof,        \* Model.eof
  mu,         \* Model.mu: Free, or the goroutine that holds it
  cache,      \* Model.cache: the entries the ristretto cache holds
  curTab,     \* the tab width the callers of lineToContents pass
  stale,      \* history: curTab changed and ClearCache has not run since
  th,         \* per consumer goroutine: where it is in its call, its locals
  prod        \* where the reader goroutine is

parserVars == <<str, tabWidth, rest, runes, p, ppc, cache0, nparsed>>

modelVars == <<buffer, endNum, eof, mu, cache, curTab, stale, th, prod>>

vars == <<parserVars, csiCache, modelVars>>

(***************************************************************************)
(* The Model: its buffer, mutex and content cache before any goroutine     *)
(* runs (NewModel).                                                        *)
(***************************************************************************)
Consumers == {"c1", "c2"}

Free == "free"

Producer == "reader"

\* The tab widths the session switches between.
SessionTabs == {2, 3}

\* The i-th line (1-based) of the input the reader goroutine reads.
FileLine(i) == IF i % 2 = 1 THEN <<97, TAB, 98>> ELSE <<TAB, 97>>

NoEntries == [k \in {} |-> <<>>]

\* The locals of a consumer that is in no call; calls is history, the calls
\* the running operation has made and that have returned.
IdleThread ==
  [pc |-> "idle", op |-> "", lineNum |-> 0, tabWidth |-> 0, end |-> 0,
   line |-> <<>>, lc |-> <<>>, err |-> "", eof |-> FALSE,
   fresh |-> FALSE, calls |-> <<>>]

\* The locals rec once the call of f has returned.
Called(rec, f) == [rec EXCEPT !.calls = Append(rec.calls, f)]

NewModel ==
  /\ buffer = <<>>
  /\ endNum = 0
  /\ eof = FALSE
  /\ mu = Free
  /\ cache = NoEntries
  /\ th = [t \in Consumers |-> IdleThread]
  /\ prod = "read"

\* The Model while only the parser is exercised.
ModelIdle ==
  /\ NewModel
  /\ curTab = 2
  /\ stale = FALSE

(***************************************************************************)
(* parseString, one grapheme cluster at a time.                            *)
(***************************************************************************)
EmptyCache == [x \in {} |-> ovStyleZero]

InitParse ==
  /\ \E in \in ParseInputs : /\ str = in[1]
                             /\ tabWidth = in[2]
  /\ rest = str
  /\ runes = <<>>
  /\ p = ParseInit
  /\ ppc = "loop"
  /\ csiCache = EmptyCache
  /\ cache0 = EmptyCache
  /\ nparsed = 0
  /\ ModelIdle

\* One iteration of "for gr.Next()".
Iterate ==
  /\ ppc = "loop"
  /\ rest # <<>>
  /\ ~p.panic
  /\ LET k == ClusterLen(rest)
         r == ParseStep(p, SubSeq(rest, 1, k), tabWidth, csiCache)
     IN /\ runes' = SubSeq(rest, 1, k)
        /\ rest' = Tail0(rest, k)
        /\ p' = r.p
        /\ csiCache' = r.cache
  /\ UNCHANGED <<str, tabWidth, ppc, cache0, nparsed, modelVars>>

\* "return lc".
Return ==
  /\ ppc = "loop"
  /\ rest = <<>>
  /\ ~p.panic
  /\ ppc' = "returned"
  /\ UNCHANGED <<str, tabWidth, rest, runes, p, csiCache, cache0, nparsed,
                 modelVars>>

NextParse == Iterate \/ Return

\* One call of parseString on each drawn input, csiCache empty before it.
Spec == InitParse /\ [][NextParse]_vars

InitLines ==
  /\ str \in LineInputs
  /\ tabWidth = 2
  /\ rest = str
  /\ runes = <<>>
  /\ p = ParseInit
  /\ ppc = "loop"
  /\ csiCache = EmptyCache
  /\ cache0 = EmptyCache
  /\ nparsed = 0
  /\ ModelIdle

\* The next call of parseString in the same process: csiCache is kept.
ParseAgain ==
  /\ ppc = "returned"
  /\ nparsed + 1 < MaxParses
  /\ str' \in LineInputs
  /\ rest' = str'
  /\ runes' = <<>>
  /\ p' = ParseInit
  /\ ppc' = "loop"
  /\ cache0' = csiCache
  /\ nparsed' = nparsed + 1
  /\ UNCHANGED <<tabWidth, csiCache, modelVars>>

NextLines == Iterate \/ Return \/ ParseAgain

\* A sequence of parseString calls sharing the process-wide csiCache.
SpecLines == InitLines /\ [][NextLines]_vars

(***************************************************************************)
(* Properties of the parser.                                               *)
(***************************************************************************)
\* C4 (width invariant): after every processed character, every cell of
\* width 2 is immediately followed by a cell whose mainc is 0.
WidthInvariant ==
  \A i \in 1..Len(p.lc) :
    p.lc[i].width = 2 => (i < Len(p.lc) /\ p.lc[i + 1].mainc = 0)

\* C4 witness: a backspace has just removed the cell after a wide character,
\* leaving the wide cell and its placeholder.
WidthWitness ==
  /\ runes = <<BS>>
  /\ p.bsFlag
  /\ Len(p.lc) = 2
  /\ p.lc[1].width = 2

\* Two cell sequences are the same but for style.
SameCells(a, b) ==
  /\ Len(a) = Len(b)
  /\ \A i \in 1..Len(a) : /\ a[i].mainc = b[i].mainc
                          /\ a[i].combc = b[i].combc
                          /\ a[i].width = b[i].width

\* C5 (plain-text round trip), as claimed: parsing the string that
\* ContentsToStr rebuilds from parseString(s, w) gives the same cells again.
RoundTrip ==
  ppc = "returned" =>
    SameCells(parseString(ContentsToStr(p.lc).str, tabWidth, csiCache).p.lc, p.lc)

\* C6 (tab stops), as claimed: right after a tab is processed with a
\* positive tab width, the number of cells is a multiple of the tab width.
TabStops ==
  [][(/\ ppc = "loop"
      /\ rest # <<>>
      /\ Head(rest) = TAB
      /\ p.state \in {ansiText, ansiEscape}
      /\ tabWidth > 0) => Len(p'.lc) % tabWidth = 0]_vars

\* C7 (idempotence): a call of parseString returns what a call on the same
\* line and tab width returns in a fresh process, whatever lines were parsed
\* before and whatever csiCache holds.
Idempotent ==
  ppc = "returned" => p.lc = parseString(str, tabWidth, EmptyCache).p.lc

\* C7 witness: a later call returned a styled cell after resolving a
\* parameter string that an earlier call had left in csiCache.
IdempotentWitness ==
  /\ ppc = "returned"
  /\ nparsed >= 1
  /\ p.csiParameter \in DOMAIN cache0
  /\ Len(p.lc) = 1
  /\ p.lc[1].style.Bold
  /\ p.lc[1].style.Underline

\* The byte offset at which cell n (0-based) starts in ContentsToStr's string.
RECURSIVE CellOffset(_, _)
CellOffset(lc, n) ==
  IF n = 0 THEN 0
  ELSE LET c == lc[n]
           own == IF c.mainc = 0 THEN 0
                  ELSE Utf8Len(c.mainc) + Utf8SeqLen(c.combc)
       IN CellOffset(lc, n - 1) + own

\* The byte offsets at which the code points of a string start, and its length.
RECURSIVE Boundaries(_, _)
Boundaries(s, at) ==
  IF s = <<>> THEN {at} ELSE {at} \cup Boundaries(Tail(s), at + Utf8Len(Head(s)))

Increasing(posCV) ==
  \A e \in posCV : \A f \in posCV :
    /\ e[1] = f[1] => e = f
    /\ e[1] < f[1] <=> e[2] < f[2]

\* C8 as claimed: the table has an entry at every code point boundary of the
\* string, combining code points included.
PosTableEveryBoundary ==
  LET r == ContentsToStr(p.lc)
  IN /\ \A o \in Boundaries(r.str, 0) : \E e \in r.posCV : e[1] = o
     /\ Increasing(r.posCV)
     /\ <<CellOffset(p.lc, Len(p.lc)), Len(p.lc)>> \in r.posCV

\* C8 as amended: the table has one entry per cell with mainc # 0, at the
\* byte offset where that cell's mainc starts and with the cell's index, and
\* no entry where a combining code point starts; the entries are strictly
\* increasing in offset and index; the one other entry is the sentinel, at
\* the byte length of the string, with value len(lc).
PosTableCells ==
  LET r == ContentsToStr(p.lc)
      cells == {n \in 0..(Len(p.lc) - 1) : p.lc[n + 1].mainc # 0}
  IN /\ r.posCV = {<<CellOffset(p.lc, n), n>> : n \in cells}
                    \cup {<<CellOffset(p.lc, Len(p.lc)), Len(p.lc)>>}
     /\ r.posCV \subseteq Boundaries(r.str, 0) \X (0..Len(p.lc))
     /\ Increasing(r.posCV)

\* C8 witness: a returned line with a cell carrying a combining mark and a
\* placeholder cell that ContentsToStr skips.
PosTableWitness ==
  /\ ppc = "returned"
  /\ \E i \in 1..Len(p.lc) : p.lc[i].combc # <<>> /\ p.lc[i].mainc # 0
  /\ \E i \in 1..Len(p.lc) : p.lc[i].mainc = 0

\* C9 (parsing never fails): for every drawn line and tab width, no
\* iteration of parseString indexes or slices outside a sequence or divides
\* by zero.
NeverFails == ~p.panic

\* C9 witness: a truncated 8-bit colour sequence, "ESC[38;5m", was resolved
\* and the parse returned.
NeverFailsWitness ==
  /\ ppc = "returned"
  /\ D2(3, 8) \o <<59>> \o D1(5) \in DOMAIN csiCache

(***************************************************************************)
(* The reader goroutine: it appends each line it reads and counts it, then *)
(* sets eof, all under mu.                                                 *)
(***************************************************************************)
ParserIdle == UNCHANGED <<parserVars, csiCache>>

ReaderLock ==
  /\ prod \in {"read", "end"}
  /\ mu = Free
  /\ mu' = Producer
  /\ prod' = IF prod = "read" /\ Len(buffer) < MaxLines THEN "append" ELSE "eof"
  /\ prod = "end" => ~eof
  /\ UNCHANGED <<buffer, endNum, eof, cache, curTab, stale, th>>
  /\ ParserIdle

\* appendLine: one raw line more ...
ReaderAppend ==
  /\ prod = "append"
  /\ buffer' = Append(buffer, FileLine(Len(buffer) + 1))
  /\ prod' = "count"
  /\ UNCHANGED <<endNum, eof, mu, cache, curTab, stale, th>>
  /\ ParserIdle

\* ... then the count with it, and the mutex is released.
ReaderCount ==
  /\ prod = "count"
  /\ endNum' = endNum + 1
  /\ mu' = Free
  /\ prod' = IF Len(buffer) < MaxLines THEN "read" ELSE "end"
  /\ UNCHANGED <<buffer, eof, cache, curTab, stale, th>>
  /\ ParserIdle

\* markEOF.
ReaderEOF ==
  /\ prod = "eof"
  /\ eof' = TRUE
  /\ mu' = Free
  /\ prod' = "done"
  /\ UNCHANGED <<buffer, endNum, cache, curTab, stale, th>>
  /\ ParserIdle

(***************************************************************************)
(* The accessors GetLine, BufEndNum and BufEOF.  Each is two steps of the  *)
(* calling goroutine: m.mu.Lock(), then the body together with the         *)
(* deferred m.mu.Unlock() (nothing else can run on the buffer in between). *)
(***************************************************************************)
Goto(t, rec) == th' = [th EXCEPT ![t] = rec]

\* Mutant: Lock does not wait for the holder.
CanLockAlways(m) == TRUE

\* m.mu.Lock() returns once no goroutine holds the mutex.
CanLock(m) == m = Free

\* m.mu.Lock() of the accessor a consumer is about to run.
Lock(t) ==
  /\ th[t].pc \in {"BufEndNum", "GetLine", "BufEOF"}
  /\ CanLock(mu)
  /\ mu' = t
  /\ Goto(t, [th[t] EXCEPT !.pc = th[t].pc \o ".locked"])
  /\ UNCHANGED <<buffer, endNum, eof, cache, curTab, stale, prod>>
  /\ ParserIdle

\* Mutant: the mutex is not released on return.
KeepLocked(t) == t

\* defer m.mu.Unlock(): the holder of mu once the accessor has returned.
Unlocked(t) == Free

\* Mutant: line endNum is taken to be in range.
OutOfRangeOffByOne(lineNum, end) == lineNum > end

\* "lineNum >= m.BufEndNum()".
OutOfRange(lineNum, end) == lineNum >= end

\* BufEndNum returns m.endNum; lineToContents goes on with the range check.
BufEndNum(t) ==
  /\ th[t].pc = "BufEndNum.locked"
  /\ mu' = Unlocked(t)
  /\ LET rec == Called(th[t], "BufEndNum")
     IN Goto(t, IF OutOfRange(th[t].lineNum, endNum)
                THEN [rec EXCEPT !.end = endNum, !.err = "ErrOutOfRange",
                                 !.pc = "return"]
                ELSE [rec EXCEPT !.end = endNum, !.pc = "cache.Get"])
  /\ UNCHANGED <<buffer, endNum, eof, cache, curTab, stale, prod>>
  /\ ParserIdle

\* Mutant: every line number in range fetches the first line.
BufferLineFirst(buf, n) == IF n < 0 \/ n >= Len(buf) THEN <<>> ELSE buf[1]

\* The body of GetLine; n is 0-based.
BufferLine(buf, n) == IF n < 0 \/ n >= Len(buf) THEN <<>> ELSE buf[n + 1]

\* GetLine returns one line from buffer ("" outside it).
GetLine(t) ==
  /\ th[t].pc = "GetLine.locked"
  /\ mu' = Unlocked(t)
  /\ LET line == BufferLine(buffer, th[t].lineNum)
     IN Goto(t, [Called(th[t], "GetLine") EXCEPT
                   !.line = line,
                   !.pc = IF th[t].op = "lineToContents"
                          THEN "parseString" ELSE "return"])
  /\ UNCHANGED <<buffer, endNum, eof, cache, curTab, stale, prod>>
  /\ ParserIdle

\* BufEOF returns m.eof.
BufEOF(t) ==
  /\ th[t].pc = "BufEOF.locked"
  /\ mu' = Unlocked(t)
  /\ Goto(t, [Called(th[t], "BufEOF") EXCEPT !.eof = eof, !.pc = "return"])
  /\ UNCHANGED <<buffer, endNum, eof, cache, curTab, stale, prod>>
  /\ ParserIdle

(***************************************************************************)
(* A consumer goroutine calls lineToContents, GetLine or BufEOF.           *)
(***************************************************************************)
\* The call of lineToContents(lineNum, curTab): "lineNum < 0 ||" is
\* evaluated first, and BufEndNum is not called when it holds.
CallLineToContents(t, n) ==
  /\ th[t].pc = "idle"
  /\ Goto(t, IF n < 0
             THEN [IdleThread EXCEPT !.op = "lineToContents", !.lineNum = n,
                                     !.tabWidth = curTab, !.fresh = ~stale,
                                     !.err = "ErrOutOfRange", !.pc = "return"]
             ELSE [IdleThread EXCEPT !.op = "lineToContents", !.lineNum = n,
                                     !.tabWidth = curTab, !.fresh = ~stale,
                                     !.pc = "BufEndNum"])
  /\ UNCHANGED <<buffer, endNum, eof, mu, cache, curTab, stale, prod>>
  /\ ParserIdle

CallGetLine(t, n) ==
  /\ th[t].pc = "idle"
  /\ Goto(t, [IdleThread EXCEPT !.op = "GetLine", !.lineNum = n, !.pc = "GetLine"])
  /\ UNCHANGED <<buffer, endNum, eof, mu, cache, curTab, stale, prod>>
  /\ ParserIdle

CallBufEOF(t) ==
  /\ th[t].pc = "idle"
  /\ Goto(t, [IdleThread EXCEPT !.op = "BufEOF", !.pc = "BufEOF"])
  /\ UNCHANGED <<buffer, endNum, eof, mu, cache, curTab, stale, prod>>
  /\ ParserIdle

\* "value, found := m.cache.Get(lineNum)": a hit returns the cached
\* contents (every value stored is a lineContents, so the type assertion
\* succeeds); a miss goes on to GetLine.
CacheGet(t) ==
  /\ th[t].pc = "cache.Get"
  /\ LET rec == Called(th[t], "cache.Get")
     IN Goto(t, IF th[t].lineNum \in DOMAIN cache
                THEN [rec EXCEPT !.lc = cache[th[t].lineNum], !.pc = "return"]
                ELSE [rec EXCEPT !.pc = "GetLine"])
  /\ UNCHANGED <<buffer, endNum, eof, mu, cache, curTab, stale, prod>>
  /\ ParserIdle

\* "lc = parseString(m.GetLine(lineNum), tabWidth)".
Parse(t) ==
  /\ th[t].pc = "parseString"
  /\ LET r == parseString(th[t].line, th[t].tabWidth, csiCache)
     IN /\ Goto(t, [Called(th[t], "parseString") EXCEPT
                       !.lc = r.p.lc, !.line = <<>>, !.pc = "cache.Set"])
        /\ csiCache' = r.cache
  /\ UNCHANGED <<parserVars, buffer, endNum, eof, mu, cache, curTab,
                 stale, prod>>

\* Mutant: every entry is stored under key 0.
SetKeyZero(lineNum) == 0

\* The key of "m.cache.Set(lineNum, lc, 1)".
SetKey(lineNum) == lineNum

\* "m.cache.Set(lineNum, lc, 1)": the cache admits the entry or drops it
\* (its buffer is full, or its policy rejects the entry); lineToContents
\* returns lc either way.
CacheSet(t) ==
  /\ th[t].pc = "cache.Set"
  /\ \/ cache' = (SetKey(th[t].lineNum) :> th[t].lc) @@ cache
     \/ cache' = cache
  /\ Goto(t, [Called(th[t], "cache.Set") EXCEPT !.pc = "return"])
  /\ UNCHANGED <<buffer, endNum, eof, mu, curTab, stale, prod>>
  /\ ParserIdle

\* The call returns to its caller.
Returned(t) ==
  /\ th[t].pc = "return"
  /\ Goto(t, IdleThread)
  /\ UNCHANGED <<buffer, endNum, eof, mu, cache, curTab, stale, prod>>
  /\ ParserIdle

(***************************************************************************)
(* The content cache (ristretto) behind Get, Set and Clear: an entry is    *)
(* evicted at any time.                                                    *)
(***************************************************************************)
CacheEvict ==
  /\ \E k \in DOMAIN cache :
       cache' = [j \in DOMAIN cache \ {k} |-> cache[j]]
  /\ UNCHANGED <<buffer, endNum, eof, mu, curTab, stale, th, prod>>
  /\ ParserIdle

\* ClearCache clears the cache.
ClearCache ==
  /\ cache' = NoEntries
  /\ stale' = FALSE
  /\ UNCHANGED <<buffer, endNum, eof, mu, curTab, th, prod>>
  /\ ParserIdle

\* The session's tab width changes; the calls in flight keep the width they
\* were given.
SetTabWidth ==
  /\ ~stale
  /\ \E w \in SessionTabs \ {curTab} : curTab' = w
  /\ stale' = TRUE
  /\ th' = [t \in Consumers |-> [th[t] EXCEPT !.fresh = FALSE]]
  /\ UNCHANGED <<buffer, endNum, eof, mu, cache, prod>>
  /\ ParserIdle

InitModel ==
  /\ NewModel
  /\ curTab \in SessionTabs
  /\ stale = FALSE
  /\ str = <<>>
  /\ tabWidth = 0
  /\ rest = <<>>
  /\ runes = <<>>
  /\ p = ParseInit
  /\ ppc = "returned"
  /\ csiCache = EmptyCache
  /\ cache0 = EmptyCache
  /\ nparsed = 0

Reader == ReaderLock \/ ReaderAppend \/ ReaderCount \/ ReaderEOF

Consumer(t) ==
  \/ \E n \in -1..MaxLines : CallLineToContents(t, n)
  \/ \E n \in -1..MaxLines : CallGetLine(t, n)
  \/ CallBufEOF(t)
  \/ Lock(t)
  \/ BufEndNum(t)
  \/ GetLine(t)
  \/ BufEOF(t)
  \/ CacheGet(t)
  \/ Parse(t)
  \/ CacheSet(t)
  \/ Returned(t)

CacheWork == CacheEvict \/ ClearCache

NextModel == Reader \/ (\E t \in Consumers : Consumer(t)) \/ CacheWork

\* The reader and the consumers at one tab width.
SpecModel == InitModel /\ [][NextModel]_vars

NextRetab == NextModel \/ SetTabWidth

\* The same with the session's tab width changing.
SpecRetab == InitModel /\ [][NextRetab]_vars

(***************************************************************************)
(* The Model's contracts.                                                  *)
(***************************************************************************)
\* A lineToContents call of consumer t that is about to return.
Returning(t) == th[t].pc = "return" /\ th[t].op = "lineToContents"

\* The calls a lineToContents call has made when it returns from a hit.
HitPath == <<"BufEndNum", "cache.Get">>

\* ... and from a miss.
MissPath == <<"BufEndNum", "cache.Get", "GetLine", "parseString", "cache.Set">>

\* parseString(GetLine(n), w).
Parsed(n, w) == parseString(buffer[n + 1], w, EmptyCache).p.lc

\* C1: at one tab width, every lineToContents(n, w) that returns without
\* error returns parseString(GetLine(n), w), on the hit path and on the miss
\* path alike, whatever the cache has admitted, dropped or evicted before.
CacheCoherence ==
  \A t \in Consumers :
    (Returning(t) /\ th[t].err = "") =>
      /\ th[t].lineNum \in 0..(Len(buffer) - 1)
      /\ th[t].calls \in {HitPath, MissPath}
      /\ th[t].lc = Parsed(th[t].lineNum, th[t].tabWidth)

\* Line 1 returns from a hit in one consumer and from a miss in the other,
\* after line 0 was inserted and the entry of line 1 evicted again.
CacheCoherenceWitness ==
  \E t, u \in Consumers :
    /\ Returning(t) /\ th[t].calls = HitPath /\ th[t].lineNum = 1
    /\ Returning(u) /\ th[u].calls = MissPath /\ th[u].lineNum = 1
    /\ th[t].lc # <<>>
    /\ DOMAIN cache = {0}

\* C2: once the tab width has changed and ClearCache has returned, every
\* lineToContents(n, curTab) that starts afterwards returns
\* parseString(GetLine(n), curTab).
ClearInvalidates ==
  \A t \in Consumers :
    (Returning(t) /\ th[t].err = "" /\ th[t].fresh) =>
      th[t].lc = Parsed(th[t].lineNum, curTab)

\* C3: lineToContents(n, w) returns ErrOutOfRange exactly when n < 0 or
\* n >= BufEndNum(), and then it has called neither the cache nor the
\* parser and returns no cells.
OutOfRangeContract ==
  \A t \in Consumers :
    Returning(t) =>
      /\ th[t].err = "ErrOutOfRange" <=>
           (th[t].lineNum < 0 \/ th[t].lineNum >= th[t].end)
      /\ th[t].err = "ErrOutOfRange" =>
           /\ th[t].calls \in {<<>>, <<"BufEndNum">>}
           /\ th[t].lc = <<>>
      /\ th[t].err = "" => th[t].lineNum < endNum

\* Line endNum of a buffer that holds lines is refused while the cache
\* holds entries, and a negative line is refused before BufEndNum is called.
OutOfRangeWitness ==
  \E t, u \in Consumers :
    /\ Returning(t) /\ th[t].err = "ErrOutOfRange"
    /\ th[t].lineNum = th[t].end /\ th[t].end > 0
    /\ cache # NoEntries
    /\ Returning(u) /\ th[u].err = "ErrOutOfRange"
    /\ th[u].lineNum < 0 /\ th[u].calls = <<>>

\* The places where a goroutine holds m.mu.
InAccessor == {"BufEndNum.locked", "GetLine.locked", "BufEOF.locked"}

\* The places where a goroutine waits for m.mu.
AtLock == {"BufEndNum", "GetLine", "BufEOF"}

\* C10: m.mu is held only inside GetLine, BufEndNum and BufEOF (and the
\* reader's append and EOF mark) and is free again when the accessor has
\* returned: a consumer at cache.Get, parseString, cache.Set or a return
\* does not hold it, and whoever holds it is at a step that releases it, so
\* no goroutine waits for a holder that cannot move.
LockDiscipline ==
  /\ mu \in {Free, Producer} \cup Consumers
  /\ \A t \in Consumers : mu = t <=> th[t].pc \in InAccessor
  /\ mu = Producer <=> prod \in {"append", "count", "eof"}
  /\ \A t \in Consumers :
       th[t].pc \in {"cache.Get", "parseString", "cache.Set", "return", "idle"}
         => mu # t
  /\ (\E t \in Consumers : th[t].pc \in AtLock) =>
       \/ mu = Free
       \/ prod \in {"append", "count", "eof"}
       \/ \E u \in Consumers : th[u].pc \in InAccessor

\* One consumer parses while the reader appends under the mutex and the
\* other consumer returns ErrOutOfRange.
LockDisciplineWitness ==
  \E t, u \in Consumers :
    /\ th[t].pc = "parseString"
    /\ mu = Producer /\ prod = "append"
    /\ Returning(u) /\ th[u].err = "ErrOutOfRange"

(***************************************************************************)
(* Properties of the parser, continued.                                    *)
(***************************************************************************)
\* An iteration of the loop of parseString is about to run.
Iterating == ppc = "loop" /\ rest # <<>> /\ ~p.panic

\* The iteration appends the cell of a code point of width 1 or 2.
EmitsChar == Head(rest) # TAB /\ Len(p'.lc) > Len(p.lc)

\* The cells the iteration appends.
NewCells == SubSeq(p'.lc, Len(p.lc) + 1, Len(p'.lc))

\* C11: a pending overstrike is applied to exactly the next cell of a code
\* point of width 1 or 2 and cleared by it; a cell emitted with none pending
\* carries the current style; a tab, a zero-width code point or a step of an
\* escape sequence neither takes nor clears the pending overstrike, and no
\* step restyles a cell emitted before.
OverstrikeOneShot ==
  [][Iterating =>
       /\ EmitsChar =>
            /\ NewCells[1].style =
                 IF p.bsFlag
                 THEN overstrike(p.bsContent.mainc, NewCells[1].mainc, p.style)
                 ELSE p.style
            /\ ~p'.bsFlag
            /\ SubSeq(p'.lc, 1, Len(p.lc)) = p.lc
       /\ Len(p'.lc) < Len(p.lc) =>
            /\ p'.bsFlag
            /\ p'.bsContent = lastContent(p.lc)
       /\ (~EmitsChar /\ Len(p'.lc) >= Len(p.lc)) =>
            /\ p'.bsFlag = p.bsFlag
            /\ p'.bsContent = p.bsContent
            /\ \A i \in 1..Len(NewCells) :
                 NewCells[i].style \in {p.style, [p.style EXCEPT !.Reverse = TRUE]}
            /\ \A i \in 1..Len(p.lc) : p'.lc[i].style = p.lc[i].style]_vars

\* "a BS TAB a" has returned: the tab cells carry the default style and the
\* second "a", the next character cell after the backspace, is bold.
OverstrikeOneShotWitness ==
  /\ ppc = "returned"
  /\ str = <<97, BS, TAB, 97>>
  /\ ~p.bsFlag
  /\ p.lc[1].mainc = TAB /\ p.lc[1].style = StyleDefault
  /\ p.lc[Len(p.lc)].mainc = 97 /\ p.lc[Len(p.lc)].style = OverStrikeStyle

\* C12: for code points x and c of width 1, the line "x BS c" parses to
\* exactly one cell with mainc c, styled with the overstrike style when
\* x = c, else with the overline style when x is "_", else with the style
\* current at c (the default style at the start of a line).
BackspaceOverstrike ==
  (/\ ppc = "returned"
   /\ Len(str) = 3
   /\ str[2] = BS
   /\ RuneWidth(str[1]) = 1
   /\ RuneWidth(str[3]) = 1) =>
    p.lc = <<[width |-> 1, mainc |-> str[3], combc |-> <<>>,
              style |-> IF str[1] = str[3] THEN OverStrikeStyle
                        ELSE IF str[1] = 95 THEN OverLineStyle
                        ELSE StyleDefault]>>

\* "_ BS _" has returned one bold underscore: equal code points come before
\* the underscore rule.
BackspaceOverstrikeWitness ==
  /\ ppc = "returned"
  /\ str = <<95, BS, 95>>
  /\ Len(p.lc) = 1
  /\ p.lc[1].style = OverStrikeStyle
  /\ OverStrikeStyle # OverLineStyle

\* The part of str the iterations so far have read.
Consumed == SubSeq(str, 1, Len(str) - Len(rest))

\* The parameter strings "0", "" and ";".
ResetParams == {D1(0), <<>>, <<59>>}

\* A csiCache that holds bold under each of the reset parameter strings.
PoisonCache == [x \in ResetParams |-> [ovStyleZero EXCEPT !.Bold = TRUE]]

\* C13: csToStyle(base, params) with params "0", "" or ";" returns the
\* all-default style for every base style and every csiCache (also one that
\* holds entries under these strings) and leaves csiCache as it was; a final
\* "m" with such parameters sets the default style and leaves csiCache alone.
SgrReset ==
  [][Iterating =>
       /\ \A params \in ResetParams : \A c \in {csiCache, PoisonCache} :
            csToStyle(p.style, params, c) =
              [style |-> StyleDefault, cache |-> c, panic |-> FALSE]
       /\ (/\ p.state = ansiControlSequence
           /\ Head(rest) = 109
           /\ p.csiParameter \in ResetParams) =>
            /\ p'.style = StyleDefault
            /\ csiCache' = csiCache]_vars

\* "ESC[1m ESC[0m" has been read: the bold style was reset, and csiCache
\* holds "1" and not "0".
SgrResetWitness ==
  /\ Consumed = <<ESC, 91, 49, 109, ESC, 91, 48, 109>>
  /\ p.style = StyleDefault
  /\ D1(1) \in DOMAIN csiCache
  /\ D1(0) \notin DOMAIN csiCache

(***************************************************************************)
(* The Model's contracts, continued.                                       *)
(***************************************************************************)
\* C14: GetLine(n) returns the stored line when 0 <= n < len(buffer) and the
\* empty string otherwise, in every buffer state and with the reader at any
\* point of its work, and it changes none of buffer, endNum and eof.
GetLineTotal ==
  [][\A t \in Consumers :
       (th[t].pc = "GetLine.locked" /\ th'[t].pc # "GetLine.locked") =>
         /\ th'[t].line =
              IF 0 <= th[t].lineNum /\ th[t].lineNum < Len(buffer)
              THEN buffer[th[t].lineNum + 1]
              ELSE <<>>
         /\ th'[t].err = ""
         /\ UNCHANGED <<buffer, endNum, eof>>]_vars

\* GetLine(1) returned the empty string when one line was stored, GetLine(0)
\* returned line 0, and the reader has since appended the second line and
\* is about to count it.
GetLineTotalWitness ==
  \E t, u \in Consumers :
    /\ th[t].pc = "return" /\ th[t].op = "GetLine"
    /\ th[t].lineNum = 1 /\ th[t].line = <<>>
    /\ th[u].pc = "return" /\ th[u].op = "GetLine"
    /\ th[u].lineNum = 0 /\ th[u].line = FileLine(1)
    /\ Len(buffer) = 2 /\ prod = "count"

\* C17: whenever the mutex is free endNum is the number of buffered lines,
\* the lines appended stay as they were read, and a lineToContents(n, w)
\* that passed the range check fetches, parses and caches under key n the
\* text of line n, never the empty string of a line out of the buffer.
RangeAndFetch ==
  /\ mu = Free => endNum = Len(buffer)
  /\ endNum <= Len(buffer)
  /\ \A i \in 1..Len(buffer) : buffer[i] = FileLine(i)
  /\ \A t \in Consumers :
       (th[t].op = "lineToContents" /\ th[t].err = "" /\ th[t].calls # <<>>) =>
         /\ th[t].lineNum < th[t].end
         /\ th[t].end <= Len(buffer)
         /\ th[t].pc = "parseString" =>
              /\ th[t].line = buffer[th[t].lineNum + 1]
              /\ th[t].line # <<>>
         /\ th[t].pc = "cache.Set" =>
              th[t].lc = Parsed(th[t].lineNum, th[t].tabWidth)
  /\ \A k \in DOMAIN cache :
       /\ k \in 0..(Len(buffer) - 1)
       /\ cache[k] = Parsed(k, curTab)

\* A consumer passed the range check for line 0 and fetched its text while
\* the reader, between its append of line 1 and the count, holds the mutex.
RangeAndFetchWitness ==
  \E t \in Consumers :
    /\ th[t].op = "lineToContents" /\ th[t].pc = "parseString"
    /\ th[t].lineNum = 0 /\ th[t].end = 1
    /\ Len(buffer) = 2 /\ endNum = 1
    /\ mu = Producer

(***************************************************************************)
(* The escape state machine.                                               *)
(***************************************************************************)
\* "[", "c", "P", "]", "X", "^", "_": the code points Escape state knows.
EscapeKnown == {91, 99, 80, 93, 88, 94, 95}

\* C15, as claimed: in Escape state a code point other than these returns
\* the parser to Text state, emits no cell and leaves the style alone.
UnknownEscapeIgnored ==
  [][(Iterating /\ p.state = ansiEscape /\ Head(rest) \notin EscapeKnown) =>
       /\ p'.state = ansiText
       /\ p'.lc = p.lc
       /\ p'.style = p.style]_vars

\* The first code point of each grapheme cluster of s: the runeValue of each
\* iteration over s.
RECURSIVE ClusterHeads(_)
ClusterHeads(s) ==
  IF s = <<>> THEN <<>>
  ELSE <<Head(s)>> \o ClusterHeads(Tail0(s, ClusterLen(s)))

\* The longest run of parameter bytes (0x30-0x3F) that ends s.
RECURSIVE TrailingParams(_)
TrailingParams(s) ==
  IF s = <<>> \/ s[Len(s)] < 48 \/ s[Len(s)] > 63 THEN <<>>
  ELSE Append(TrailingParams(SubSeq(s, 1, Len(s) - 1)), s[Len(s)])

\* The parameter bytes read since the parser entered ControlSequence (it is
\* in that state): every iteration since then read one.
ParamsSinceEntry == TrailingParams(ClusterHeads(Consumed))

\* C16, as claimed: when a final "m" resolves a style, the parameter string
\* handed to csToStyle is the parameter bytes read since the parser last
\* entered ControlSequence.
FreshParams ==
  (Iterating /\ p.state = ansiControlSequence /\ Head(rest) = 109) =>
    p.csiParameter = ParamsSinceEntry

\* A code point of display width 0 that is no tab, backspace, ESC or LF.
IsMark(r) == RuneWidth(r) = 0 /\ r \notin {TAB, BS, ESC, LF}

\* C18, as claimed: a zero-width code point read in Text state leaves the
\* number of cells alone, goes to a base cell, so that no cell with mainc 0
\* has combining code points, and is dropped when no cell precedes it.
CombiningAttach ==
  [][(Iterating /\ p.state = ansiText /\ IsMark(Head(rest))) =>
       /\ Len(p'.lc) = Len(p.lc)
       /\ \A i \in 1..Len(p'.lc) :
            p'.lc[i].mainc = 0 => p'.lc[i].combc = <<>>
       /\ p.lc = <<>> => p'.lc = <<>>]_vars

\* C19: in ControlSequence state no cell is emitted; a byte in 0x30-0x3F is
\* accumulated and keeps the state and the style; any other byte returns
\* the parser to Text state, and the style changes only for "m", to what
\* csToStyle resolves from the accumulated parameters and the current style.
ControlSequenceStep ==
  [][(Iterating /\ p.state = ansiControlSequence) =>
       LET r == Head(rest) IN
       /\ p'.lc = p.lc
       /\ (r >= 48 /\ r <= 63) =>
            /\ p'.state = ansiControlSequence
            /\ p'.csiParameter = Append(p.csiParameter, r)
            /\ p'.style = p.style
       /\ (r < 48 \/ r > 63) =>
            /\ p'.state = ansiText
            /\ r = 109 =>
                 p'.style = csToStyle(p.style, p.csiParameter, csiCache).style
            /\ r # 109 => (p'.style = p.style /\ csiCache' = csiCache)]_vars

\* "ESC[1;5m" has been read: two tokens and the ";" were accumulated, the
\* "m" resolved bold and blink, and no cell was emitted.
ControlSequenceStepWitness ==
  /\ Consumed = <<ESC, 91, 49, 59, 53, 109>>
  /\ p.csiParameter = <<49, 59, 53>>
  /\ p.state = ansiText
  /\ p.style = [StyleDefault EXCEPT !.Bold = TRUE, !.Blink = TRUE]
  /\ p.lc = <<>>

\* The tokens "22", "24", "25" and "27".
ClearTokens == {D2(2, 2), D2(2, 4), D2(2, 5), D2(2, 7)}

\* The fields of a parameter string after its last clearing token.
RECURSIVE AfterClear(_)
AfterClear(fields) ==
  IF fields = <<>> \/ fields[Len(fields)] \in ClearTokens THEN <<>>
  ELSE Append(AfterClear(SubSeq(fields, 1, Len(fields) - 1)),
              fields[Len(fields)])

\* C20, as claimed: a final "m" whose parameters hold one of the tokens 22,
\* 24, 25, 27 leaves the default style with only the tokens after the last
\* such token applied, whatever the style before.
ClearTokenResets ==
  [][(/\ Iterating
      /\ p.state = ansiControlSequence
      /\ Head(rest) = 109
      /\ \E i \in 1..Len(Split(p.csiParameter)) :
           Split(p.csiParameter)[i] \in ClearTokens) =>
       p'.style =
         applyStyle(StyleDefault,
                    parseCSI(Join(AfterClear(Split(p.csiParameter)))).style)]_vars

====
